---------------------------- MODULE Spec2Model ----------------------------
(***************************************************************************)
(* Model of mods/customize-build.py (class BuildCustomizer): the bash      *)
(* array editor, the dnf install command rewriter and the atomic file      *)
(* writer they share.                                                      *)
(*                                                                         *)
(* A Python str is a sequence of one-character strings; a file's text is   *)
(* such a sequence with "\n" characters in it.  Python list indices are    *)
(* 0-based, the sequences here are 1-based: start_idx and end_idx of the   *)
(* source are Start-1 and End-1 of the model.                              *)
(***************************************************************************)
EXTENDS Integers, Sequences, FiniteSets, TLC

(***************************************************************************)
(* Characters and str helpers                                              *)
(***************************************************************************)
NL == "\n"
DQ == "\""
SQ == "'"
BS == "\\"

\* the characters of the model's alphabet that the regex class \s and
\* str.strip() treat as whitespace inside one line
WS == {" ", "\t"}

Min(S) == CHOOSE x \in S : \A y \in S : x <= y
Max(S) == CHOOSE x \in S : \A y \in S : x >= y

\* s[i:] with i 1-based
From(s, i) == SubSeq(s, i, Len(s))

\* number of leading characters of s that are in cs
LeadCount(s, cs) ==
  CHOOSE n \in 0..Len(s) :
    /\ \A i \in 1..n : s[i] \in cs
    /\ n = Len(s) \/ s[n + 1] \notin cs

\* number of trailing characters of s that are in cs
TrailCount(s, cs) ==
  CHOOSE n \in 0..Len(s) :
    /\ \A i \in 1..n : s[Len(s) + 1 - i] \in cs
    /\ n = Len(s) \/ s[Len(s) - n] \notin cs

LStrip(s, cs) == From(s, LeadCount(s, cs) + 1)
RStrip(s, cs) == SubSeq(s, 1, Len(s) - TrailCount(s, cs))
\* str.strip()
Strip(s) == RStrip(LStrip(s, WS), WS)

\* s.startswith(lit, i-1): lit occurs in s at position i
HasAt(s, i, lit) ==
  /\ i >= 1
  /\ i + Len(lit) - 1 <= Len(s)
  /\ SubSeq(s, i, i + Len(lit) - 1) = lit

StartsWith(s, lit) == HasAt(s, 1, lit)
EndsWith(s, lit) == HasAt(s, Len(s) - Len(lit) + 1, lit)

\* first position >= i of s that holds no character of cs (Len(s)+1 if none)
SkipIn(s, i, cs) == i + LeadCount(From(s, i), cs)
\* the same for whitespace inside a line
SkipWS(s, i) == SkipIn(s, i, WS)

\* positions where lit occurs in s
Occurrences(s, lit) == {i \in 1..Len(s) : HasAt(s, i, lit)}

\* str.splitlines() for "\n" line ends: a final "\n" opens no further line
RECURSIVE SplitLines(_)
SplitLines(text) ==
  IF text = <<>> THEN <<>>
  ELSE LET nls == {i \in 1..Len(text) : text[i] = NL}
       IN IF nls = {} THEN <<text>>
          ELSE LET k == Min(nls)
               IN <<SubSeq(text, 1, k - 1)>> \o SplitLines(From(text, k + 1))

\* "\n".join(lines)
RECURSIVE JoinLines(_)
JoinLines(lines) ==
  IF lines = <<>> THEN <<>>
  ELSE IF Len(lines) = 1 THEN lines[1]
  ELSE lines[1] \o <<NL>> \o JoinLines(Tail(lines))

Range(seq) == {seq[i] : i \in 1..Len(seq)}

(***************************************************************************)
(* Regular expressions of the array editor                                 *)
(***************************************************************************)
\* \s*{re.escape(array_name)}\s*=\s*\( matched at position i of s, where
\* \s is the characters of ws
\* mutant: the name is not anchored on its right, any characters may stand
\* between it and the "="
ArrayStartAtPrefix(s, i, array_name, ws) ==
  LET i1 == SkipIn(s, i, ws)
  IN /\ HasAt(s, i1, array_name)
     /\ \E i2 \in (i1 + Len(array_name))..Len(s) :
          /\ \A k \in (i1 + Len(array_name))..(i2 - 1) : s[k] \notin ws \cup {NL, "="}
          /\ HasAt(s, i2, <<"=">>)
          /\ HasAt(s, SkipIn(s, i2 + 1, ws), <<"(">>)

ArrayStartAt(s, i, array_name, ws) ==
  LET i1 == SkipIn(s, i, ws)
      i2 == SkipIn(s, i1 + Len(array_name), ws)
      i3 == SkipIn(s, i2 + 1, ws)
  IN /\ HasAt(s, i1, array_name)
     /\ HasAt(s, i2, <<"=">>)
     /\ HasAt(s, i3, <<"(">>)

\* re.match(rf"^\s*{re.escape(array_name)}\s*=\s*\(", line)
MatchArrayStart(line, array_name) == ArrayStartAt(line, 1, array_name, WS)

\* re.search(rf"^\s*{re.escape(name)}\s*=\s*\(", text, flags=re.M): ^ is the
\* start of any line and \s also matches the line ends of the text
TextDeclares(text, name) ==
  \E i \in {1} \cup {k + 1 : k \in {j \in 1..Len(text) : text[j] = NL}} :
    ArrayStartAt(text, i, name, WS \cup {NL})

\* the loop that finds start_idx: the first matching line, 0 if none (None)
FindStart(lines, array_name) ==
  LET hits == {i \in 1..Len(lines) : MatchArrayStart(lines[i], array_name)}
  IN IF hits = {} THEN 0 ELSE Min(hits)

\* re.search(r"\((.*)\)", start_line): leftmost "(", then greedy to the last ")"
InlineMatches(line) ==
  \E p \in Occurrences(line, <<"(">>) : \E q \in Occurrences(line, <<")">>) : p < q

InlineInner(line) ==
  LET p == Min(Occurrences(line, <<"(">>))
      q == Max(Occurrences(line, <<")">>))
  IN SubSeq(line, p + 1, q - 1)

\* mutant: quotes do not delimit tokens, every run of non-whitespace is one
RECURSIVE FindTokensPlain(_, _)
FindTokensPlain(s, i) ==
  IF i > Len(s) THEN <<>>
  ELSE IF s[i] \in WS THEN FindTokensPlain(s, i + 1)
  ELSE LET stop == {j \in i..Len(s) : s[j] \in WS}
           j == IF stop = {} THEN Len(s) ELSE Min(stop) - 1
       IN <<SubSeq(s, i, j)>> \o FindTokensPlain(s, j + 1)

\* token_re.findall(inner) for token_re = "[^"]*"|'[^']*'|[^\s]+ , scanning
\* from position i: the alternatives are tried in order at the leftmost
\* position where one matches
RECURSIVE FindTokens(_, _)
FindTokens(s, i) ==
  IF i > Len(s) THEN <<>>
  ELSE IF s[i] \in WS THEN FindTokens(s, i + 1)
  ELSE LET closeD == {j \in (i + 1)..Len(s) : s[j] = DQ}
           closeS == {j \in (i + 1)..Len(s) : s[j] = SQ}
           stop   == {j \in i..Len(s) : s[j] \in WS}
           j == IF s[i] = DQ /\ closeD # {} THEN Min(closeD)
                ELSE IF s[i] = SQ /\ closeS # {} THEN Min(closeS)
                ELSE IF stop = {} THEN Len(s) ELSE Min(stop) - 1
       IN <<SubSeq(s, i, j)>> \o FindTokens(s, j + 1)

\* re.match(r"^\s*\)", line)
MatchClose(line) == HasAt(line, SkipWS(line, 1), <<")">>)

\* re.match(r"^(\s*)", line).group(1)
LeadingWS(line) == SubSeq(line, 1, LeadCount(line, WS))


(***************************************************************************)
(* _parse_array_block and _normalize_entry                                 *)
(***************************************************************************)
\* the loop of the multi-line form, at line i with the entries and the
\* indentation collected so far; closed = FALSE is the RuntimeError
\* "Array block not closed with )"
\* mutant: at the end of the file the entries collected so far are returned
RECURSIVE ScanBlockPartial(_, _, _, _)
ScanBlockPartial(lines, i, entries, indent) ==
  IF i > Len(lines) \/ MatchClose(lines[i])
  THEN [closed |-> TRUE, end |-> i, entries |-> entries, indent |-> indent]
  ELSE ScanBlockPartial(lines, i + 1, Append(entries, RStrip(lines[i], {NL})),
                        IF indent = <<>> THEN LeadingWS(lines[i]) ELSE indent)

RECURSIVE ScanBlock(_, _, _, _)
ScanBlock(lines, i, entries, indent) ==
  IF i > Len(lines) THEN [closed |-> FALSE, end |-> 0, entries |-> <<>>, indent |-> <<>>]
  ELSE IF MatchClose(lines[i])
       THEN [closed |-> TRUE, end |-> i, entries |-> entries, indent |-> indent]
       ELSE ScanBlock(lines, i + 1, Append(entries, RStrip(lines[i], {NL})),
                      IF indent = <<>> THEN LeadingWS(lines[i]) ELSE indent)

\* entries = [t for t in (tok.strip() for tok in tokens) if t]
InlineEntries(start_line) ==
  LET inner == Strip(InlineInner(start_line))
      tokens == FindTokens(inner, 1)
      stripped == [k \in 1..Len(tokens) |-> Strip(tokens[k])]
  IN IF inner = <<>> THEN <<>> ELSE SelectSeq(stripped, LAMBDA t : t # <<>>)

\* _parse_array_block(lines, start_idx): (end index, raw entries, indent)
ParseArrayBlock(lines, start) ==
  IF InlineMatches(lines[start])
  THEN [closed |-> TRUE, end |-> start, entries |-> InlineEntries(lines[start]),
        indent |-> <<>>]
  ELSE ScanBlock(lines, start + 1, <<>>, <<>>)

\* Python's None, as a value no str equals
None == <<"None">>

\* re.sub(r"\s+#.*$", "", s): cut at the leftmost whitespace run that a "#" follows
CutInlineComment(s) ==
  LET cuts == {i \in 1..Len(s) : s[i] \in WS /\ HasAt(s, SkipWS(s, i), <<"#">>)}
  IN IF cuts = {} THEN s ELSE SubSeq(s, 1, Min(cuts) - 1)

\* s[1:-1] when s starts and ends with the same quote character
StripQuotes(s) ==
  IF \/ (StartsWith(s, <<DQ>>) /\ EndsWith(s, <<DQ>>))
     \/ (StartsWith(s, <<SQ>>) /\ EndsWith(s, <<SQ>>))
  THEN SubSeq(s, 2, Len(s) - 1)
  ELSE s

\* _normalize_entry(line)
NormalizeEntry(line) ==
  LET s == Strip(line)
  IN IF s = <<>> THEN None
     ELSE IF StartsWith(LStrip(s, WS), <<"#">>) THEN None
     ELSE Strip(StripQuotes(RStrip(CutInlineComment(s), {" ", BS})))

\* Python truthiness of an Optional[str]
Truthy(e) == e # None /\ e # <<>>

\* current_entries_clean = [e for e in (normalize(l) for l in current_lines) if e]
CleanEntries(current_lines) ==
  SelectSeq([k \in 1..Len(current_lines) |-> NormalizeEntry(current_lines[k])], Truthy)

(***************************************************************************)
(* The array edits, as functions of the text read from the file.           *)
(* err: "none", "ValueError" (array not found), "RuntimeError" (block not  *)
(* closed).  new_text is the text handed to _write_atomic when changed.    *)
(***************************************************************************)
EditError(kind, text) ==
  [err |-> kind, changed |-> FALSE, before_count |-> 0, after_count |-> 0,
   new_text |-> text]

EditResult(changed, before, after, new_text) ==
  [err |-> "none", changed |-> changed, before_count |-> before,
   after_count |-> after, new_text |-> new_text]

\* mutant: the lines after the closing line are not written back
SpliceDropsTail(lines, start, new_block_lines, end) ==
  JoinLines(SubSeq(lines, 1, start) \o new_block_lines \o <<lines[end]>>) \o <<NL>>

\* new_lines = lines[: start_idx + 1] + new_block_lines + lines[end_idx:]
\* new_text = "\n".join(new_lines) + "\n"
Splice(lines, start, new_block_lines, end) ==
  JoinLines(SubSeq(lines, 1, start) \o new_block_lines \o From(lines, end)) \o <<NL>>

\* mutant: every requested entry is appended, present or not
AdditionsNotFiltered(entries, current_entries_clean) == entries

\* mutant: an entry requested twice is appended once
RECURSIVE AdditionsOnce(_, _)
AdditionsOnce(entries, current_entries_clean) ==
  IF entries = <<>> THEN <<>>
  ELSE LET init == AdditionsOnce(SubSeq(entries, 1, Len(entries) - 1),
                                 current_entries_clean)
           ent == entries[Len(entries)]
       IN IF ent \in Range(current_entries_clean) \cup Range(init) THEN init
          ELSE Append(init, ent)

\* additions = [ent for ent in entries if ent not in current_entries_clean]
Additions(entries, current_entries_clean) ==
  SelectSeq(entries, LAMBDA ent : ent \notin Range(current_entries_clean))

\* add_entries_to_array once the additions are known: the unchanged result,
\* or the new block lines spliced into the file
AddAdditions(text, lines, start, blk, before_count, additions) ==
  IF additions = <<>> THEN EditResult(FALSE, before_count, before_count, text)
  ELSE EditResult(TRUE, before_count, before_count + Len(additions),
                  Splice(lines, start,
                         blk.entries \o
                           [k \in 1..Len(additions) |-> blk.indent \o additions[k]],
                         blk.end))

\* add_entries_to_array once the block is parsed
AddToBlock(text, lines, start, blk, entries) ==
  IF ~blk.closed THEN EditError("RuntimeError", text)
  ELSE AddAdditions(text, lines, start, blk, Len(CleanEntries(blk.entries)),
                    Additions(entries, CleanEntries(blk.entries)))

\* add_entries_to_array, from the text read to the result and the new text
AddEdit(text, array_name, entries) ==
  LET lines == SplitLines(text)
      start == FindStart(lines, array_name)
  IN IF start = 0 THEN EditError("ValueError", text)
     ELSE AddToBlock(text, lines, start, ParseArrayBlock(lines, start), entries)

\* mutant: the raw line, not its normalized form, is looked up in the removal set
KeptLinesRaw(current_lines, to_remove) ==
  SelectSeq(current_lines, LAMBDA raw : raw \notin to_remove)

\* mutant: comment lines and blank lines of the block are not kept
KeptLinesEntriesOnly(current_lines, to_remove) ==
  SelectSeq(current_lines,
            LAMBDA raw : Truthy(NormalizeEntry(raw)) /\ NormalizeEntry(raw) \notin to_remove)

\* the block lines remove_entries_from_array keeps
KeptLines(current_lines, to_remove) ==
  SelectSeq(current_lines,
            LAMBDA raw : ~(Truthy(NormalizeEntry(raw)) /\ NormalizeEntry(raw) \in to_remove))

\* remove_entries_from_array once the kept lines are known: the unchanged
\* result, or the kept lines spliced into the file
RemoveDropped(text, lines, start, blk, before_count, new_block_lines) ==
  IF Len(new_block_lines) = Len(blk.entries)
  THEN EditResult(FALSE, before_count, before_count, text)
  ELSE EditResult(TRUE, before_count,
                  before_count - (Len(blk.entries) - Len(new_block_lines)),
                  Splice(lines, start, new_block_lines, blk.end))

\* remove_entries_from_array once the block is parsed
RemoveFromBlock(text, lines, start, blk, entries) ==
  IF ~blk.closed THEN EditError("RuntimeError", text)
  ELSE RemoveDropped(text, lines, start, blk, Len(CleanEntries(blk.entries)),
                     KeptLines(blk.entries, Range(entries)))

\* remove_entries_from_array, from the text read to the result and the new text
RemoveEdit(text, array_name, entries) ==
  LET lines == SplitLines(text)
      start == FindStart(lines, array_name)
  IN IF start = 0 THEN EditError("ValueError", text)
     ELSE RemoveFromBlock(text, lines, start, ParseArrayBlock(lines, start), entries)

(***************************************************************************)
(* The dnf install command rewriter                                        *)
(***************************************************************************)
DNF == <<"d", "n", "f">>
INSTALL == <<"i", "n", "s", "t", "a", "l", "l">>
FEDORA_PACKAGES ==
  <<"F", "E", "D", "O", "R", "A", "_", "P", "A", "C", "K", "A", "G", "E", "S">>
\* keys of REMOVAL_LIST
EXCLUDED_PACKAGES ==
  <<"E", "X", "C", "L", "U", "D", "E", "D", "_", "P", "A", "C", "K", "A", "G", "E", "S">>
WEAK_PACKAGES_TO_EXCLUDE ==
  <<"W", "E", "A", "K", "_", "P", "A", "C", "K", "A", "G", "E", "S", "_", "T", "O", "_",
    "E", "X", "C", "L", "U", "D", "E">>
EXCLUDE_FLAG == <<"-", "-", "e", "x", "c", "l", "u", "d", "e", "=">>

\* dnf\s+(?:-y\s+)?install.*FEDORA_PACKAGES matched at position i of line
DnfMatchAt(line, i) ==
  LET a == i + Len(DNF)
      b == SkipWS(line, a)
      c == IF HasAt(line, b, <<"-", "y">>) /\ SkipWS(line, b + 2) > b + 2
           THEN SkipWS(line, b + 2) ELSE b
  IN /\ HasAt(line, i, DNF)
     /\ b > a
     /\ \/ HasAt(line, c, INSTALL)
           /\ \E k \in Occurrences(line, FEDORA_PACKAGES) : k >= c + Len(INSTALL)
        \/ HasAt(line, b, INSTALL)
           /\ \E k \in Occurrences(line, FEDORA_PACKAGES) : k >= b + Len(INSTALL)

\* dnf_pattern.search(line) of find_dnf_install_commands
DnfSearch(line) == \E i \in 1..Len(line) : DnfMatchAt(line, i)

\* find_dnf_install_commands(file_path): the matching line numbers
FindDnfInstallCommands(text) ==
  LET lines == SplitLines(text)
  IN {i \in 1..Len(lines) : DnfSearch(lines[i])}

\* mutant: a line that already carries an exclusion flag is left alone
DnfLineMatchesOnce(line) ==
  DnfMatchAt(line, SkipWS(line, 1)) /\ Occurrences(line, EXCLUDE_FLAG) = {}

\* re.match of ^(\s*)(dnf\s+(?:-y\s+)?install.*FEDORA_PACKAGES.*)$
DnfLineMatches(line) == DnfMatchAt(line, SkipWS(line, 1))

\* " ".join([f"--exclude={pkg}" for pkg in exclude_packages])
RECURSIVE ExcludeFlags(_)
ExcludeFlags(exclude_packages) ==
  IF exclude_packages = <<>> THEN <<>>
  ELSE IF Len(exclude_packages) = 1 THEN EXCLUDE_FLAG \o exclude_packages[1]
  ELSE EXCLUDE_FLAG \o exclude_packages[1] \o <<" ">> \o ExcludeFlags(Tail(exclude_packages))

\* mutant: the flags are inserted after every occurrence of "install"
RECURSIVE ReplaceEveryInstall(_, _)
ReplaceEveryInstall(dnf_full_cmd, exclude_flags) ==
  IF Occurrences(dnf_full_cmd, INSTALL) = {} THEN dnf_full_cmd
  ELSE LET k == Min(Occurrences(dnf_full_cmd, INSTALL))
       IN SubSeq(dnf_full_cmd, 1, k + Len(INSTALL) - 1) \o <<" ">> \o exclude_flags
            \o ReplaceEveryInstall(From(dnf_full_cmd, k + Len(INSTALL)), exclude_flags)

\* dnf_full_cmd.replace('install', f'install {exclude_flags}', 1)
ReplaceFirstInstall(dnf_full_cmd, exclude_flags) ==
  LET k == Min(Occurrences(dnf_full_cmd, INSTALL))
  IN SubSeq(dnf_full_cmd, 1, k + Len(INSTALL) - 1) \o <<" ">> \o exclude_flags
       \o From(dnf_full_cmd, k + Len(INSTALL))

\* the new line for a matching line: f"{indent}{new_full_cmd}"
RewriteLine(line, exclude_packages) ==
  LET indent == LeadingWS(line)
      dnf_full_cmd == From(line, Len(indent) + 1)
  IN indent \o ReplaceFirstInstall(dnf_full_cmd, ExcludeFlags(exclude_packages))

\* new_text = "\n".join(lines); if not new_text.endswith("\n"): new_text += "\n"
RebuildText(lines) ==
  LET joined == JoinLines(lines)
  IN IF EndsWith(joined, <<NL>>) THEN joined ELSE joined \o <<NL>>

\* add_exclusions_to_dnf_install, from the text read to (modified_count, new text)
ExclusionEdit(text, exclude_packages) ==
  LET lines == SplitLines(text)
      hits == {i \in 1..Len(lines) : DnfLineMatches(lines[i])}
      new_lines == [i \in 1..Len(lines) |->
                      IF i \in hits THEN RewriteLine(lines[i], exclude_packages)
                      ELSE lines[i]]
  IN IF exclude_packages = <<>> \/ hits = {}
     THEN [modified_count |-> 0, new_text |-> text]
     ELSE [modified_count |-> Cardinality(hits), new_text |-> RebuildText(new_lines)]

(***************************************************************************)
(* The batch operations: what they scan and the calls they make            *)
(***************************************************************************)
\* list(table.keys())
Keys(table) == [i \in 1..Len(table) |-> table[i][1]]
\* name in table
HasKey(table, name) == \E i \in 1..Len(table) : table[i][1] = name
\* list(table[name]); table.get(name, []) when the key is missing
Get(table, name) ==
  IF HasKey(table, name)
  THEN table[CHOOSE i \in 1..Len(table) : table[i][1] = name][2]
  ELSE <<>>

\* list(dict.fromkeys(names)): the first occurrence of each name, in order
RECURSIVE FromKeys(_)
FromKeys(names) ==
  IF names = <<>> THEN <<>>
  ELSE LET init == FromKeys(SubSeq(names, 1, Len(names) - 1))
           x == names[Len(names)]
       IN IF x \in Range(init) THEN init ELSE Append(init, x)

\* DEFAULT_ARRAY_NAMES
DefaultArrayNames(cfg) == FromKeys(Keys(cfg.ADDITION_LIST) \o Keys(cfg.REMOVAL_LIST))

\* the calls apply_defaults makes for one array name in one file: the
\* removal first, the addition next
JobsFor(cfg, array_name, path) ==
  (IF HasKey(cfg.REMOVAL_LIST, array_name)
   THEN <<[op |-> "remove", path |-> path, array_name |-> array_name,
           entries |-> Get(cfg.REMOVAL_LIST, array_name)]>>
   ELSE <<>>)
  \o
  (IF HasKey(cfg.ADDITION_LIST, array_name)
   THEN <<[op |-> "add", path |-> path, array_name |-> array_name,
           entries |-> Get(cfg.ADDITION_LIST, array_name)]>>
   ELSE <<>>)

\* the concatenation of a sequence of sequences
RECURSIVE Flatten(_)
Flatten(seqs) == IF seqs = <<>> THEN <<>> ELSE Head(seqs) \o Flatten(Tail(seqs))

\* find_files_for_default_arrays: result[name], the files (in glob order)
\* whose text declares the array
FilesDeclaring(texts, order, name) ==
  SelectSeq(order, LAMBDA path : TextDeclares(texts[path], name))

\* the calls of apply_defaults, in order: for each array name, for each file
DefaultsJobs(cfg, texts, order) ==
  LET names == DefaultArrayNames(cfg)
  IN Flatten([n \in 1..Len(names) |->
       LET fs == FilesDeclaring(texts, order, names[n])
       IN Flatten([k \in 1..Len(fs) |-> JobsFor(cfg, names[n], fs[k])])])

\* get_weak_packages()
GetWeakPackages(cfg) == Get(cfg.REMOVAL_LIST, WEAK_PACKAGES_TO_EXCLUDE)

\* files_with_dnf of apply_dnf_exclusions
FilesWithDnf(texts, paths) == {path \in paths : FindDnfInstallCommands(texts[path]) # {}}

(***************************************************************************)
(* Bounds and the inputs the calls are drawn from                          *)
(***************************************************************************)
\* calls made in one run
MaxCalls == 2
\* I/O failures injected in one run
MaxFaults == 1
\* seconds int(time.time()) may advance to
MaxClock == 1

\* the scripts: two files with the same base name in different directories
P1 == "build_files/base/build.sh"
P2 == "build_files/dx/build.sh"
Paths == {P1, P2}
\* the files the single calls are made on
CallPaths == {P1}
\* path.name
BaseName(path) == "build.sh"
\* path.parent
Parent(path) == IF path = P1 THEN "build_files/base" ELSE "build_files/dx"

\* lines of the example scripts
OPEN_FP == FEDORA_PACKAGES \o <<"=", "(">>
CLOSE == <<")">>
L_a == <<" ", " ", "a">>
L_qb == <<" ", " ", DQ, "b", DQ>>
L_comment == <<" ", " ", "#", " ", "c">>
L_inline == FEDORA_PACKAGES \o <<"=", "(", "a", " ", DQ, "b", DQ, ")">>
L_prefix == FEDORA_PACKAGES \o <<"_", "X", "=", "(", "a", ")">>
L_suffix == <<"M", "Y", "_">> \o FEDORA_PACKAGES \o <<"=", "(">>
L_dnf == DNF \o <<" ", "-", "y", " ">> \o INSTALL
           \o <<" ", "$", "{">> \o FEDORA_PACKAGES \o <<"[", "@", "]", "}">>
L_echo == <<"e", "c", "h", "o", " ", "(", "x", ")">>

\* the text of a script with these lines, each ended by "\n"
Script(lines) == JoinLines(lines) \o <<NL>>

\* block form with a quoted entry and a comment line, then the install command
T_block == Script(<<OPEN_FP, L_a, L_qb, L_comment, CLOSE, L_dnf>>)
\* inline form
T_inline == Script(<<L_inline, L_dnf>>)
\* empty block, file not ended by a newline
T_empty == JoinLines(<<L_echo, OPEN_FP, CLOSE>>)
\* block never closed
T_unclosed == Script(<<OPEN_FP, L_a, L_dnf>>)
\* only arrays with longer names
T_other == Script(<<L_suffix, L_a, CLOSE, L_prefix>>)

\* block closed by a line that holds more than the closing paren
L_close_more == <<")", " ", "#", " ", "e", "n", "d">>
T_tail == Script(<<OPEN_FP, L_a, L_close_more, L_dnf>>)

InitTexts == {T_block, T_inline, T_empty, T_unclosed, T_other, T_tail}

\* requested entries / packages
EntryLists ==
  { <<<<"a">>>>, <<<<"c">>>>, <<<<"c">>, <<"a">>, <<"c">>>>, <<<<DQ, "c", DQ>>>> }
PackageLists == { <<>>, <<<<"a">>, <<"b">>>> }
ArrayNames == {FEDORA_PACKAGES}

\* the class attributes ADDITION_LIST and REMOVAL_LIST: array name -> entries,
\* in the order of the dict, as pairs <<name, entries>>

\* the shape of the source's tables with shorter lists: additions for
\* FEDORA_PACKAGES, removals for other arrays, some packages in both
DefaultConfig ==
  [ADDITION_LIST |-> << <<FEDORA_PACKAGES, <<<<"a">>, <<"c">>>>>> >>,
   REMOVAL_LIST |-> << <<EXCLUDED_PACKAGES, <<<<"a">>, <<"d">>>>>>,
                       <<WEAK_PACKAGES_TO_EXCLUDE, <<<<"w">>>>>> >>]
\* tables overridden so that one array has a removal list and an addition list
SharedConfig ==
  [ADDITION_LIST |-> << <<FEDORA_PACKAGES, <<<<"a">>, <<"c">>>>>> >>,
   REMOVAL_LIST |-> << <<FEDORA_PACKAGES, <<<<"a">>>>>> >>]
Configs == {DefaultConfig, SharedConfig}

\* a script declaring two of the configured arrays
OPEN_EP == EXCLUDED_PACKAGES \o <<"=", "(">>
L_d == <<" ", " ", "d">>
T_two == Script(<<OPEN_FP, L_a, CLOSE, OPEN_EP, L_a, L_d, CLOSE, L_dnf>>)
InitTexts2 == {T_two}

\* blocks whose entry lines differ in indentation
L_flush == <<"a">>
L_b == <<" ", " ", "b">>
L_spaces == <<" ", " ", " ", " ">>
\* the first entry line is not indented, the second is
T_flush == Script(<<OPEN_FP, L_flush, L_b, CLOSE, L_dnf>>)
\* a whitespace-only line before the first entry line
T_spaces == Script(<<OPEN_FP, L_spaces, L_a, CLOSE>>)
\* an empty line before the first entry line
T_blank == Script(<<OPEN_FP, <<>>, L_a, CLOSE>>)
StyleTexts == {T_flush, T_spaces, T_blank, T_inline}

\* lines with install commands
\* a tab, no -y, and a second "install" on the line
L_dnf_two ==
  <<"\t", "d", "n", "f", " ", " ", "i", "n", "s", "t", "a", "l", "l", " ",
    "x", " ", "i", "n", "s", "t", "a", "l", "l", " ", "F", "E", "D", "O",
    "R", "A", "_", "P", "A", "C", "K", "A", "G", "E", "S">>
\* an install command without the FEDORA_PACKAGES token
L_dnf_vim ==
  <<"d", "n", "f", " ", "-", "y", " ", "i", "n", "s", "t", "a", "l", "l",
    " ", "v", "i", "m">>
\* the command after other text on the line
L_echo_dnf ==
  <<"e", "c", "h", "o", " ", "d", "n", "f", " ", "i", "n", "s", "t", "a",
    "l", "l", " ", "F", "E", "D", "O", "R", "A", "_", "P", "A", "C", "K",
    "A", "G", "E", "S">>
\* L_dnf rewritten with the packages a and b
L_dnf_ab ==
  <<"d", "n", "f", " ", "-", "y", " ", "i", "n", "s", "t", "a", "l", "l",
    " ", "-", "-", "e", "x", "c", "l", "u", "d", "e", "=", "a", " ", "-",
    "-", "e", "x", "c", "l", "u", "d", "e", "=", "b", " ", "$", "{", "F",
    "E", "D", "O", "R", "A", "_", "P", "A", "C", "K", "A", "G", "E", "S",
    "[", "@", "]", "}">>
\* four commands, two of them matching the anchored pattern
T_cmds == Script(<<L_dnf, L_dnf_two, L_dnf_vim, L_echo_dnf>>)
\* a matching command followed by two empty lines
T_cmds_blank == Script(<<L_echo, L_dnf_two, <<>>, <<>>>>)
\* no line end after the last line
T_cmds_open == JoinLines(<<L_dnf_vim, L_dnf>>)
DnfTexts == {T_cmds, T_cmds_blank, T_cmds_open}
\* packages to exclude, one list with a package twice
DnfPackageLists == { <<>>, <<<<"a">>, <<"b">>>>, <<<<"a">>, <<"a">>>> }

\* an array entry that reads as an install command
L_cmd == DNF \o <<" ">> \o INSTALL \o <<" ">> \o FEDORA_PACKAGES
\* a block holding such an entry, then the install command
T_cmdblock == Script(<<OPEN_FP, L_a, <<" ", " ">> \o L_cmd, CLOSE, L_dnf>>)
\* the block and the install command followed by an empty line
T_blockblank == Script(<<OPEN_FP, L_a, L_qb, L_comment, CLOSE, L_dnf, <<>>>>)
OrderTexts == {T_block, T_cmdblock, T_blockblank}
OrderEntryLists == { <<<<"a">>>>, <<<<"c">>>>, <<L_cmd>> }

\* inline declarations
\* the array of the inline examples
NAMES ==
  <<"N", "A", "M", "E", "S">>
\* an unquoted token, a double-quoted and a single-quoted span
L_names ==
  <<"N", "A", "M", "E", "S", "=", "(", "a", " ", DQ, "b", " ", "c", DQ,
    " ", SQ, "d", SQ, ")">>
\* a span followed by a word, a quote that is never closed
L_names_odd ==
  <<"N", "A", "M", "E", "S", "=", "(", " ", DQ, "a", DQ, "b", " ", " ", SQ,
    "c", " ", "d", SQ, " ", DQ, "e", " ", ")">>
\* nothing but whitespace between the parentheses
L_names_none ==
  <<"N", "A", "M", "E", "S", "=", "(", " ", " ", ")">>
\* a second pair of parentheses after the array
L_names_more ==
  <<"N", "A", "M", "E", "S", "=", "(", "a", ")", " ", "#", " ", "(", "x",
    ")">>
\* a line that would be an entry of a block
L_z ==
  <<" ", " ", "z">>
\* each followed by lines that a block-form parse would read
T_names == Script(<<L_names, L_z, CLOSE>>)
T_names_odd == Script(<<L_echo, L_names_odd, L_z, CLOSE>>)
T_names_none == Script(<<L_names_none, L_z>>)
T_names_more == Script(<<L_names_more, L_dnf>>)
InlineTexts == {T_names, T_names_odd, T_names_none, T_names_more}
\* requests: a token that is inside a quoted span, present and absent words
InlineEntryLists == { <<<<"b", " ", "c">>>>, <<<<"d">>, <<"z">>>>, <<<<"c">>>> }

\* requests with an empty string and with a string that starts a comment
CountTexts == {T_block, T_inline, T_empty}
CountEntryLists == { <<<<>>>>, <<<<"#", "x">>>>, <<<<"c">>, <<>>>>, <<<<"a">>>> }

\* st_mode of a script in the repository, and of a file write_text creates
ScriptMode == "0755"
CreatedMode == "0644"

(***************************************************************************)
(* State                                                                   *)
(***************************************************************************)
VARIABLES
  files,       \* path -> [text, mode]: the scripts on disk
  tmps,        \* temporary files on disk: id -> [dir, text, mode]
  backups,     \* the backup directory: <<name, ts>> -> text (name.ts.bak)
  backup_dir,  \* self.backup_dir is configured
  clock,       \* int(time.time())
  pc,          \* process -> where it is in _write_atomic ("idle" between calls)
  pend,        \* process -> the call of add/remove/add_exclusions in flight
  last,        \* the call of add/remove/add_exclusions completed last
  prev,        \* the call completed before it
  batch,       \* the batch operation in progress
  lastBatch,   \* the batch operation completed last
  prevBatch,   \* the batch operation completed before it
  ncalls,      \* calls made by the client
  nfaults      \* failures injected

disk == <<files, tmps, backups>>
vars == <<files, tmps, backups, backup_dir, clock, pc, pend, last, prev,
          batch, lastBatch, prevBatch, ncalls, nfaults>>

Procs == {1, 2}
NoCall == [op |-> "none"]
NoBatch == [kind |-> "none"]
Empty == <<>>

\* the text of every script
Texts == [path \in Paths |-> files[path].text]

\* the state after construction, the first script holding one of the texts
InitFrom(texts) ==
  /\ files \in {[path \in Paths |->
                   [text |-> IF path = P1 THEN t1 ELSE t2, mode |-> ScriptMode]] :
                 t1 \in texts, t2 \in InitTexts2}
  /\ tmps = Empty
  /\ backups = Empty
  /\ backup_dir \in BOOLEAN
  /\ clock = 0
  /\ pc = [p \in Procs |-> "idle"]
  /\ pend = [p \in Procs |-> NoCall]
  /\ last = NoCall
  /\ prev = NoCall
  /\ batch = NoBatch
  /\ lastBatch = NoBatch
  /\ prevBatch = NoBatch
  /\ ncalls = 0
  /\ nfaults = 0

Init == InitFrom(InitTexts)

(***************************************************************************)
(* add_entries_to_array, remove_entries_from_array and                     *)
(* add_exclusions_to_dnf_install.  A call reads the file and computes its  *)
(* result in one step; when it has something to write it goes through      *)
(* _write_atomic step by step and returns after os.replace.                *)
(***************************************************************************)
\* the arguments of the exception: ValueError(f"Array {array_name} not found in
\* {file_path}"), RuntimeError("Array block not closed with )")
ErrorMessage(err, array_name, path) ==
  IF err = "ValueError"
  THEN [format |-> "Array {array_name} not found in {file_path}",
        array_name |-> array_name, file_path |-> path]
  ELSE IF err = "RuntimeError" THEN [format |-> "Array block not closed with )"]
  ELSE [format |-> ""]

\* what the batch operation in progress does with a call that returned or
\* raised: apply_defaults appends the result, or catches and logs the
\* exception; apply_dnf_exclusions stores the result, and an exception
\* leaves its loop
Collect(call, raised) ==
  IF batch.kind = "none" THEN batch
  ELSE IF raised = "none"
  THEN [batch EXCEPT !.queue = Tail(@),
                     !.results =
                        IF batch.kind = "defaults"
                        THEN [@ EXCEPT ![call.path] = Append(@, call.result)]
                        ELSE (call.path :> call.result) @@ @]
  ELSE IF batch.kind = "defaults" THEN [batch EXCEPT !.queue = Tail(@)]
  ELSE [batch EXCEPT !.queue = <<>>, !.raised = raised]

\* the call returns (raised = "none") or raises
Return(p, call, raised) ==
  /\ last' = [call EXCEPT !.raised = raised,
                          !.message = ErrorMessage(raised, call.array_name, call.path)]
  /\ prev' = last
  /\ pc' = [pc EXCEPT ![p] = "idle"]
  /\ pend' = [pend EXCEPT ![p] = NoCall]
  /\ batch' = Collect(call, raised)

\* the call enters _write_atomic(file_path, new_text)
EnterWrite(p, call) ==
  /\ pc' = [pc EXCEPT ![p] = "write_tmp"]
  /\ pend' = [pend EXCEPT ![p] = call]
  /\ UNCHANGED <<last, prev, batch>>

\* ArrayEditResult(file_path, changed, before_count, after_count)
ArrayEditResult(path, res) ==
  [path |-> path, changed |-> res.changed, before_count |-> res.before_count,
   after_count |-> res.after_count]

\* mutant: a dry run reports that nothing would be modified
ExclusionResultDryZero(edit, exclude_packages, write) ==
  [modified_count |-> IF write THEN edit.modified_count ELSE 0,
   message |-> IF write THEN "Successfully modified"
               ELSE "No DNF install commands found to modify"]

\* the tuple add_exclusions_to_dnf_install returns
ExclusionResult(edit, exclude_packages, write) ==
  [modified_count |-> edit.modified_count,
   message |-> IF exclude_packages = <<>> THEN "No packages to exclude"
               ELSE IF edit.modified_count = 0
               THEN "No DNF install commands found to modify"
               ELSE IF write THEN "Successfully modified"
               ELSE "Dry-run: would modify"]

\* the call: its arguments, the text it read, what it computed (changed, the
\* new text), the result it returns, the temporary file it writes and the
\* exception it raises
NewCall(op, path, array_name, entries, write, changed, new_text, result) ==
  [op |-> op, path |-> path, array_name |-> array_name, entries |-> entries,
   write |-> write, read |-> files[path].text, changed |-> changed,
   new_text |-> new_text, result |-> result, tmp |-> 0, raised |-> "none",
   message |-> [format |-> ""]]

\* mutant: the changed text is written whatever the write flag is
AddEntriesToArrayAlwaysWrites(p, path, array_name, entries, write) ==
  /\ pc[p] = "idle"
  /\ \E res \in {AddEdit(files[path].text, array_name, entries)} :
       \E call \in {NewCall("add", path, array_name, entries, write, res.changed,
                             res.new_text, ArrayEditResult(path, res))} :
         IF res.err # "none" THEN Return(p, call, res.err)
         ELSE IF ~res.changed THEN Return(p, call, "none")
         ELSE EnterWrite(p, call)
  /\ UNCHANGED <<disk, backup_dir, clock, lastBatch, prevBatch, nfaults>>

\* add_entries_to_array(file_path, array_name, entries, write)
AddEntriesToArray(p, path, array_name, entries, write) ==
  /\ pc[p] = "idle"
  /\ \E res \in {AddEdit(files[path].text, array_name, entries)} :
       \E call \in {NewCall("add", path, array_name, entries, write, res.changed,
                             res.new_text, ArrayEditResult(path, res))} :
         IF res.err # "none" THEN Return(p, call, res.err)
         ELSE IF ~res.changed THEN Return(p, call, "none")
         ELSE IF write THEN EnterWrite(p, call)
         ELSE Return(p, call, "none")
  /\ UNCHANGED <<disk, backup_dir, clock, lastBatch, prevBatch, nfaults>>

\* remove_entries_from_array(file_path, array_name, entries, write)
RemoveEntriesFromArray(p, path, array_name, entries, write) ==
  /\ pc[p] = "idle"
  /\ \E res \in {RemoveEdit(files[path].text, array_name, entries)} :
       \E call \in {NewCall("remove", path, array_name, entries, write, res.changed,
                             res.new_text, ArrayEditResult(path, res))} :
         IF res.err # "none" THEN Return(p, call, res.err)
         ELSE IF ~res.changed THEN Return(p, call, "none")
         ELSE IF write THEN EnterWrite(p, call)
         ELSE Return(p, call, "none")
  /\ UNCHANGED <<disk, backup_dir, clock, lastBatch, prevBatch, nfaults>>

\* add_exclusions_to_dnf_install(file_path, exclude_packages, write)
AddExclusionsToDnfInstall(p, path, exclude_packages, write) ==
  /\ pc[p] = "idle"
  /\ \E edit \in {ExclusionEdit(files[path].text, exclude_packages)} :
       \E call \in {NewCall("exclude", path, <<>>, exclude_packages, write,
                            edit.modified_count # 0, edit.new_text,
                            ExclusionResult(edit, exclude_packages, write))} :
         IF edit.modified_count = 0 THEN Return(p, call, "none")
         ELSE IF write THEN EnterWrite(p, call)
         ELSE Return(p, call, "none")
  /\ UNCHANGED <<disk, backup_dir, clock, lastBatch, prevBatch, nfaults>>

(***************************************************************************)
(* apply_defaults and apply_dnf_exclusions: the scan when the batch starts *)
(* fixes the calls to make (queue); each is then made as above.            *)
(***************************************************************************)
\* the order in which repo_root.glob() yields the scripts
GlobOrder == <<P1, P2>>

\* the orders in which a set can be iterated
Orders(S) == {o \in [1..Cardinality(S) -> S] : Range(o) = S}

NewBatch(kind, cfg, dry_run, queue, keys, empty) ==
  [kind |-> kind, cfg |-> cfg, dry_run |-> dry_run, queue |-> queue,
   results |-> [path \in keys |-> empty], before |-> Texts, raised |-> "none"]

\* apply_defaults(dry_run): mapping = find_files_for_default_arrays(...)
ApplyDefaults(p, cfg, dry_run) ==
  /\ pc[p] = "idle"
  /\ batch = NoBatch
  /\ LET queue == DefaultsJobs(cfg, Texts, GlobOrder)
     IN batch' = NewBatch("defaults", cfg, dry_run, queue,
                          {queue[i].path : i \in 1..Len(queue)}, <<>>)
  /\ UNCHANGED <<disk, backup_dir, clock, pc, pend, last, prev, lastBatch,
                 prevBatch, nfaults>>

\* apply_dnf_exclusions(dry_run): returns {} at once without weak packages;
\* else finds the files with install commands and loops over that set
ApplyDnfExclusions(p, cfg, dry_run) ==
  /\ pc[p] = "idle"
  /\ batch = NoBatch
  /\ \E order \in Orders(IF GetWeakPackages(cfg) = <<>> THEN {}
                         ELSE FilesWithDnf(Texts, Paths)) :
       batch' = NewBatch("dnf", cfg, dry_run,
                         [i \in 1..Len(order) |->
                            [op |-> "exclude", path |-> order[i], array_name |-> <<>>,
                             entries |-> GetWeakPackages(cfg)]],
                         {}, <<>>)
  /\ UNCHANGED <<disk, backup_dir, clock, pc, pend, last, prev, lastBatch,
                 prevBatch, nfaults>>

\* the next call of the batch operation, with write = not dry_run
BatchCall(p) ==
  /\ batch # NoBatch
  /\ batch.queue # <<>>
  /\ LET job == Head(batch.queue)
     IN CASE job.op = "remove" ->
               RemoveEntriesFromArray(p, job.path, job.array_name, job.entries,
                                      ~batch.dry_run)
          [] job.op = "add" ->
               AddEntriesToArray(p, job.path, job.array_name, job.entries,
                                 ~batch.dry_run)
          [] job.op = "exclude" ->
               AddExclusionsToDnfInstall(p, job.path, job.entries, ~batch.dry_run)
  /\ UNCHANGED ncalls

\* the batch operation returns its results, or raises what its loop raised
BatchReturn(p) ==
  /\ pc[p] = "idle"
  /\ batch # NoBatch
  /\ batch.queue = <<>>
  /\ lastBatch' = batch
  /\ prevBatch' = lastBatch
  /\ batch' = NoBatch
  /\ UNCHANGED <<disk, backup_dir, clock, pc, pend, last, prev, ncalls, nfaults>>

(***************************************************************************)
(* _write_atomic(path, content), one step per statement that touches the   *)
(* disk.  The ...Fails steps are I/O failures (OSError), injected at most  *)
(* MaxFaults times in a run.                                               *)
(***************************************************************************)
Fault == nfaults < MaxFaults /\ nfaults' = nfaults + 1

\* tempfile.mktemp(dir=...): a name no existing temporary file has
MkTemp == Min({i \in 1..(Cardinality(DOMAIN tmps) + 1) : i \notin DOMAIN tmps})

\* mutant: the content is computed again from the file as it is when the
\* temporary file is written
TmpFileRecomputed(call, n) ==
  [dir |-> Parent(call.path),
   text |-> IF call.op = "add"
            THEN AddEdit(files[call.path].text, call.array_name, call.entries).new_text
            ELSE IF call.op = "remove"
            THEN RemoveEdit(files[call.path].text, call.array_name,
                            call.entries).new_text
            ELSE ExclusionEdit(files[call.path].text, call.entries).new_text,
   mode |-> CreatedMode]

\* a temporary file in the target's directory holding the first n characters
TmpFile(call, n) ==
  [dir |-> Parent(call.path), text |-> SubSeq(call.new_text, 1, n),
   mode |-> CreatedMode]

\* os.replace(tmp, path): the target now is the temporary file, in one step
OsReplace(path, id) ==
  /\ files' = [files EXCEPT ![path] = [text |-> tmps[id].text, mode |-> tmps[id].mode]]
  /\ tmps' = [i \in DOMAIN tmps \ {id} |-> tmps[i]]

\* bak_name = f"{path.name}.{ts}.bak" with ts = int(time.time())
BakName(path, ts) == <<BaseName(path), ts>>

\* shutil.copy2(path, bak_path): creates or overwrites bak_path
Copy2(path, bak_name) ==
  backups' = (bak_name :> files[path].text) @@ backups

\* mutant: the content is written to the target itself, not to a new file
WriteTmpInPlace(p) ==
  /\ pc[p] = "write_tmp"
  /\ files' = [files EXCEPT ![pend[p].path].text = pend[p].new_text]
  /\ tmps' = (MkTemp :> TmpFile(pend[p], Len(pend[p].new_text))) @@ tmps
  /\ pend' = [pend EXCEPT ![p].tmp = MkTemp]
  /\ pc' = [pc EXCEPT ![p] = "chmod"]
  /\ UNCHANGED <<backups, backup_dir, clock, last, prev, batch, lastBatch,
                 prevBatch, ncalls, nfaults>>

\* tmp = mktemp(...); tmp.write_text(content)
WriteTmp(p) ==
  /\ pc[p] = "write_tmp"
  /\ tmps' = (MkTemp :> TmpFile(pend[p], Len(pend[p].new_text))) @@ tmps
  /\ pend' = [pend EXCEPT ![p].tmp = MkTemp]
  /\ pc' = [pc EXCEPT ![p] = "chmod"]
  /\ UNCHANGED <<files, backups, backup_dir, clock, last, prev, batch, lastBatch,
                 prevBatch, ncalls, nfaults>>

\* how much of the content a failing write_text leaves in the temporary file
PartialLengths(content) == {0, Len(content) \div 2}

\* write_text fails: nothing created (open failed), or a partial temporary
\* file is left behind; the exception leaves _write_atomic and the call
WriteTmpFails(p) ==
  /\ pc[p] = "write_tmp"
  /\ Fault
  /\ \/ UNCHANGED tmps
     \/ \E n \in PartialLengths(pend[p].new_text) :
          tmps' = (MkTemp :> TmpFile(pend[p], n)) @@ tmps
  /\ Return(p, pend[p], "OSError")
  /\ UNCHANGED <<files, backups, backup_dir, clock, lastBatch, prevBatch, ncalls>>

\* st = path.stat(); os.chmod(tmp, st.st_mode)
Chmod(p) ==
  /\ pc[p] = "chmod"
  /\ tmps' = [tmps EXCEPT ![pend[p].tmp].mode = files[pend[p].path].mode]
  /\ pc' = [pc EXCEPT ![p] = "backup"]
  /\ UNCHANGED <<files, backups, backup_dir, clock, pend, last, prev, batch,
                 lastBatch, prevBatch, ncalls, nfaults>>

\* stat or chmod raises: the exception is ignored, the mode stays as created
ChmodFails(p) ==
  /\ pc[p] = "chmod"
  /\ Fault
  /\ pc' = [pc EXCEPT ![p] = "backup"]
  /\ UNCHANGED <<disk, backup_dir, clock, pend, last, prev, batch, lastBatch,
                 prevBatch, ncalls>>

\* if self.backup_dir and path.exists(): copy the target into the backup
\* directory under a name made of its base name and the current second
Backup(p) ==
  /\ pc[p] = "backup"
  /\ IF backup_dir
     THEN Copy2(pend[p].path, BakName(pend[p].path, clock))
     ELSE UNCHANGED backups
  /\ pc' = [pc EXCEPT ![p] = "replace"]
  /\ UNCHANGED <<files, tmps, backup_dir, clock, pend, last, prev, batch, lastBatch,
                 prevBatch, ncalls, nfaults>>

\* mkdir or copy2 raises: logged and ignored, no backup is written
BackupFails(p) ==
  /\ pc[p] = "backup"
  /\ backup_dir
  /\ Fault
  /\ pc' = [pc EXCEPT ![p] = "replace"]
  /\ UNCHANGED <<disk, backup_dir, clock, pend, last, prev, batch, lastBatch,
                 prevBatch, ncalls>>

\* os.replace(str(tmp), str(path)), then the call returns its result
Replace(p) ==
  /\ pc[p] = "replace"
  /\ OsReplace(pend[p].path, pend[p].tmp)
  /\ Return(p, pend[p], "none")
  /\ UNCHANGED <<backups, backup_dir, clock, lastBatch, prevBatch, ncalls, nfaults>>

\* os.replace raises: the target is untouched, the temporary file stays
ReplaceFails(p) ==
  /\ pc[p] = "replace"
  /\ Fault
  /\ Return(p, pend[p], "OSError")
  /\ UNCHANGED <<disk, backup_dir, clock, lastBatch, prevBatch, ncalls>>

\* a second passes; the clock is read only when the backup is named, so the
\* seconds that pass elsewhere are not told apart
Tick ==
  /\ \E p \in Procs : pc[p] = "backup"
  /\ clock < MaxClock
  /\ clock' = clock + 1
  /\ UNCHANGED <<disk, backup_dir, pc, pend, last, prev, batch, lastBatch, prevBatch,
                 ncalls, nfaults>>

WriteAtomic(p) ==
  \/ WriteTmp(p)
  \/ Chmod(p)
  \/ Backup(p)
  \/ Replace(p)

WriteAtomicFails(p) ==
  \/ WriteTmpFails(p)
  \/ ChmodFails(p)
  \/ BackupFails(p)
  \/ ReplaceFails(p)

(***************************************************************************)
(* Specifications                                                          *)
(***************************************************************************)
\* the client makes one more call
Client == batch = NoBatch /\ ncalls < MaxCalls /\ ncalls' = ncalls + 1

Calls(p, flags) ==
  \/ \E path \in CallPaths, array_name \in ArrayNames, entries \in EntryLists,
        write \in flags :
       \/ Client /\ AddEntriesToArray(p, path, array_name, entries, write)
       \/ Client /\ RemoveEntriesFromArray(p, path, array_name, entries, write)
  \/ \E path \in CallPaths, exclude_packages \in PackageLists, write \in flags :
       Client /\ AddExclusionsToDnfInstall(p, path, exclude_packages, write)

Call(p) == Calls(p, BOOLEAN)

Batch(p) ==
  \/ \E cfg \in Configs, dry_run \in BOOLEAN :
       \/ Client /\ ApplyDefaults(p, cfg, dry_run)
       \/ Client /\ ApplyDnfExclusions(p, cfg, dry_run)
  \/ BatchCall(p)
  \/ BatchReturn(p)

\* one process calling the three edit operations one after the other, every
\* disk operation succeeding
Next == Call(1) \/ WriteAtomic(1)
Spec == Init /\ [][Next]_vars

\* one process calling the two batch operations
NextBatch == Batch(1) \/ WriteAtomic(1)
SpecBatch == Init /\ [][NextBatch]_vars

\* one process making dry-run calls of the edit operations and calling the
\* batch operations, dry or real
NextDry == Calls(1, {FALSE}) \/ Batch(1) \/ WriteAtomic(1)
SpecDry == Init /\ [][NextDry]_vars

\* the edit operations called with write=true, with disk operations that may
\* fail
NextIO == Calls(1, {TRUE}) \/ WriteAtomic(1) \/ WriteAtomicFails(1)
SpecIO == Init /\ [][NextIO]_vars

\* the same with a clock that advances
NextClock == NextIO \/ Tick
SpecClock == Init /\ [][NextClock]_vars

\* the edit operations on blocks whose lines differ in indentation
InitStyle == InitFrom(StyleTexts)
SpecStyle == InitStyle /\ [][Next]_vars

\* calls of add_exclusions_to_dnf_install on scripts with several commands
Exclusions(p) ==
  \E path \in CallPaths, exclude_packages \in DnfPackageLists, write \in BOOLEAN :
    Client /\ AddExclusionsToDnfInstall(p, path, exclude_packages, write)

InitDnf == InitFrom(DnfTexts)
NextDnf == Exclusions(1) \/ WriteAtomic(1)
SpecDnf == InitDnf /\ [][NextDnf]_vars

\* the batch operations with disk operations that may fail
NextBatchIO == Batch(1) \/ WriteAtomic(1) \/ WriteAtomicFails(1)
SpecBatchIO == Init /\ [][NextBatchIO]_vars

\* the edit operations called with write=true while the clock advances,
\* every disk operation succeeding
NextBackup == Calls(1, {TRUE}) \/ WriteAtomic(1) \/ Tick
SpecBackup == Init /\ [][NextBackup]_vars

\* two processes calling the edit operations with write=true on the same
\* script, their steps interleaved; nothing locks the file
NextTwo == \E p \in Procs : Calls(p, {TRUE}) \/ WriteAtomic(p)
SpecTwo == Init /\ [][NextTwo]_vars

\* the rewriter and the array editor called one after the other with
\* write=true on scripts that have a block-form array and an install command
OrderCalls(p) ==
  \/ \E path \in CallPaths, array_name \in ArrayNames, entries \in OrderEntryLists :
       \/ Client /\ AddEntriesToArray(p, path, array_name, entries, TRUE)
       \/ Client /\ RemoveEntriesFromArray(p, path, array_name, entries, TRUE)
  \/ \E path \in CallPaths :
       Client /\ AddExclusionsToDnfInstall(p, path, <<<<"a">>, <<"b">>>>, TRUE)

InitOrder == InitFrom(OrderTexts)
NextOrder == OrderCalls(1) \/ WriteAtomic(1)
SpecOrder == InitOrder /\ [][NextOrder]_vars

\* calls of the array edits on inline declarations
InlineCalls(p) ==
  \E path \in CallPaths, entries \in InlineEntryLists, write \in BOOLEAN :
    \/ Client /\ AddEntriesToArray(p, path, NAMES, entries, write)
    \/ Client /\ RemoveEntriesFromArray(p, path, NAMES, entries, write)

InitInline == InitFrom(InlineTexts)
NextInline == InlineCalls(1) \/ WriteAtomic(1)
SpecInline == InitInline /\ [][NextInline]_vars

\* calls of the array edits with write=true and requests of any strings
CountCalls(p) ==
  \E path \in CallPaths, array_name \in ArrayNames, entries \in CountEntryLists :
    \/ Client /\ AddEntriesToArray(p, path, array_name, entries, TRUE)
    \/ Client /\ RemoveEntriesFromArray(p, path, array_name, entries, TRUE)

InitCount == InitFrom(CountTexts)
NextCount == CountCalls(1) \/ WriteAtomic(1)
SpecCount == InitCount /\ [][NextCount]_vars

(***************************************************************************)
(* Properties                                                              *)
(***************************************************************************)
\* a call of add/remove/add_exclusions returns or raises in this step
Returned == <<last, prev>>' # <<last, prev>>

IsEdit(call) == call.op \in {"add", "remove"}

\* two calls of the same operation with the same arguments
SameArguments(c1, c2) ==
  /\ c1.op = c2.op
  /\ c1.path = c2.path
  /\ c1.array_name = c2.array_name
  /\ c1.entries = c2.entries

\* the raw entries of the first declaration of the array in the text: the
\* lines between the opening line and the closing line, or the inline tokens
BlockLines(text, array_name) ==
  ParseArrayBlock(SplitLines(text), FindStart(SplitLines(text), array_name)).entries

\* the normalized, non-empty entries of the array in the text
EntriesIn(text, array_name) == CleanEntries(BlockLines(text, array_name))

\* C1: calling add_entries_to_array twice in a row with the same arguments
\* and write=true, on a file that has the array and lacks at least one of the
\* requested entries, returns changed=true the first time and changed=false
\* the second time, and the second call leaves the file as the first wrote it.
C1_AddTwice ==
  (/\ prev.op = "add" /\ last.op = "add"
   /\ SameArguments(prev, last)
   /\ prev.write /\ last.write
   /\ prev.raised = "none"
   /\ \E e \in Range(prev.entries) : e \notin Range(EntriesIn(prev.read, prev.array_name)))
  => (/\ prev.result.changed
      /\ last.raised = "none"
      /\ ~last.result.changed
      /\ files[last.path].text = last.read)

\* add_entries_to_array appended every requested entry
AppendedAll(call) ==
  /\ call.op = "add" /\ call.write /\ call.raised = "none" /\ call.result.changed
  /\ Additions(call.entries, EntriesIn(call.read, call.array_name)) = call.entries

\* prev appended the entries E and last removed the same E, both writing
AddThenRemove ==
  /\ prev.op = "add" /\ last.op = "remove"
  /\ AppendedAll(prev)
  /\ last.path = prev.path /\ last.array_name = prev.array_name
  /\ last.entries = prev.entries
  /\ last.write /\ last.raised = "none"

\* the count and the block are what they were before the add
Restored ==
  /\ last.result.after_count = prev.result.before_count
  /\ BlockLines(files[last.path].text, last.array_name)
       = BlockLines(prev.read, prev.array_name)

\* C2 as stated: adding entries E and then removing the same E restores the
\* count and the lines of the block, whatever the entries are.
C2_RoundTrip == AddThenRemove => Restored

\* an entry that is its own normalized form: a non-empty token without
\* surrounding whitespace, quotes, comment or trailing backslash
IsPlainToken(e) == e # <<>> /\ NormalizeEntry(e) = e

\* C2 amended: adding entries E that are their own normalized form and then
\* removing the same E restores the count and the lines of the block.
C2_RoundTripPlain ==
  (AddThenRemove /\ \A e \in Range(prev.entries) : IsPlainToken(e)) => Restored

\* C2 witness: an entry was appended to a block and removed again
C2_Witness ==
  /\ AddThenRemove
  /\ \A e \in Range(prev.entries) : IsPlainToken(e)
  /\ last.result.changed
  /\ ~InlineMatches(SplitLines(prev.read)[FindStart(SplitLines(prev.read), prev.array_name)])
  /\ files[last.path].text = prev.read

\* C3: while _write_atomic runs, and when it fails before os.replace, the
\* target holds the complete text that was read; once it has returned the
\* target holds the complete new text. Never anything else.
C3_OldOrNew ==
  /\ \A p \in Procs : pc[p] # "idle" => files[pend[p].path].text = pend[p].read
  /\ last # NoCall =>
       files[last.path].text =
         IF last.write /\ last.changed /\ last.raised = "none"
         THEN last.new_text ELSE last.read

\* C3 witness: writing the temporary file failed half way, the partial
\* temporary file is on disk and the target is as it was
C3_Witness ==
  /\ last # NoCall
  /\ last.raised = "OSError"
  /\ \E id \in DOMAIN tmps :
       /\ tmps[id].text # last.new_text
       /\ tmps[id].text # <<>>
  /\ files[last.path].text = last.read
  /\ last.read # last.new_text

\* every requested entry is among the normalized entries of the array
AllPresent(call) ==
  \A e \in Range(call.entries) : e \in Range(EntriesIn(call.read, call.array_name))

\* C4: when every requested entry is already present, add_entries_to_array
\* returns changed=false with after_count = before_count in the step that
\* read the file, without entering _write_atomic: no file, temporary file or
\* backup changes, whatever the write flag is.
C4_NoOpAdd ==
  [][(/\ Returned
      /\ last'.op = "add"
      /\ last'.raised \notin {"ValueError", "RuntimeError"}
      /\ AllPresent(last'))
     => (/\ pc[1] = "idle"
         /\ last'.raised = "none"
         /\ ~last'.result.changed
         /\ last'.result.after_count = last'.result.before_count
         /\ disk' = disk)]_vars

\* C4 witness: an add with write=true of entries that were all present
\* returned unchanged, with a backup directory configured and nothing in it
C4_Witness ==
  /\ last.op = "add" /\ last.write /\ last.raised = "none"
  /\ AllPresent(last)
  /\ ~last.result.changed
  /\ backup_dir /\ backups = Empty /\ tmps = Empty
  /\ files[last.path].text = last.read

\* C5: a call with write=false, and a batch operation with dry_run=true,
\* changes no file, no temporary file and no backup: every step that changes
\* the disk belongs to a call with write=true outside a dry-run batch, and a
\* dry-run batch returns with every file as it was when the batch started.
C5_DryRunWritesNothing ==
  [][/\ disk' # disk =>
          /\ pend[1] # NoCall /\ pend[1].write
          /\ batch # NoBatch => ~batch.dry_run
     /\ (Returned /\ ~last'.write) => (pc[1] = "idle" /\ disk' = disk)
     /\ (lastBatch' # lastBatch /\ lastBatch'.dry_run) =>
          Texts' = lastBatch'.before]_vars

\* C5 witness: a dry-run batch returned after a call with write=false that
\* computed a change, and the disk holds what it held when the batch started
C5_Witness ==
  /\ lastBatch # NoBatch /\ lastBatch.dry_run
  /\ prevBatch = NoBatch
  /\ last # NoCall /\ ~last.write /\ last.changed /\ last.raised = "none"
  /\ prev = NoCall
  /\ Texts = lastBatch.before
  /\ tmps = Empty /\ backups = Empty

\* prev is a dry run and last the real run of the same operation, with the
\* same arguments on the same file content
DryThenReal ==
  /\ prev # NoCall /\ last # NoCall
  /\ SameArguments(prev, last)
  /\ prev.read = last.read
  /\ ~prev.write /\ last.write

\* C6: on the same file content and arguments, a call with write=false
\* returns what the call with write=true returns: the same changed,
\* before_count and after_count for add and remove, the same modified count
\* for add_exclusions_to_dnf_install, and the same error if it fails.
C6_DryRunSameResult ==
  DryThenReal =>
    /\ prev.raised = last.raised
    /\ (last.raised = "none" /\ IsEdit(last)) =>
         /\ prev.result.changed = last.result.changed
         /\ prev.result.before_count = last.result.before_count
         /\ prev.result.after_count = last.result.after_count
    /\ (last.raised = "none" /\ last.op = "exclude") =>
         prev.result.modified_count = last.result.modified_count

\* C6 witness: a dry run of add_exclusions_to_dnf_install reported a modified
\* command and the real run that followed rewrote the file
C6_Witness ==
  /\ DryThenReal
  /\ last.op = "exclude"
  /\ last.result.modified_count > 0
  /\ files[last.path].text = last.new_text
  /\ last.new_text # last.read

\* C7: apply_defaults(dry_run=true) returns for every file the results that
\* apply_defaults(dry_run=false) returns from the same file contents and the
\* same configuration.
C7_BatchDryRunPreviews ==
  (/\ prevBatch.kind = "defaults" /\ lastBatch.kind = "defaults"
   /\ prevBatch.dry_run /\ ~lastBatch.dry_run
   /\ prevBatch.cfg = lastBatch.cfg
   /\ prevBatch.before = lastBatch.before)
  => prevBatch.results = lastBatch.results

\* the line opens an array with exactly this name: whitespace, the name,
\* whitespace, "=", whitespace, "("
OpensArray(line, array_name) ==
  \E i \in 0..Len(line) :
    /\ \A x \in 1..i : line[x] \in WS
    /\ HasAt(line, i + 1, array_name)
    /\ \E j \in 0..(Len(line) - i - Len(array_name)) :
         LET eq == i + Len(array_name) + j + 1
         IN /\ \A x \in (i + Len(array_name) + 1)..(eq - 1) : line[x] \in WS
            /\ HasAt(line, eq, <<"=">>)
            /\ \E k \in 0..(Len(line) - eq) :
                 /\ \A x \in (eq + 1)..(eq + k) : line[x] \in WS
                 /\ HasAt(line, eq + k + 1, <<"(">>)

\* the lines that open the array
OpeningLines(lines, array_name) ==
  {n \in 1..Len(lines) : OpensArray(lines[n], array_name)}

\* the line consists of optional whitespace followed by ")"
OnlyClosingParen(line) ==
  /\ line # <<>>
  /\ line[Len(line)] = ")"
  /\ \A x \in 1..(Len(line) - 1) : line[x] \in WS

\* the first opening line of the array has no ")" and no later line
\* consists of optional whitespace followed by ")"
Unterminated(text, array_name) ==
  LET lines == SplitLines(text)
      opening == OpeningLines(lines, array_name)
  IN /\ opening # {}
     /\ LET start == CHOOSE n \in opening : \A m \in opening : n <= m
        IN /\ ")" \notin Range(lines[start])
           /\ \A n \in (start + 1)..Len(lines) : ~OnlyClosingParen(lines[n])

BeginsWithClosingParen(line) ==
  \E k \in 0..(Len(line) - 1) :
    /\ \A x \in 1..k : line[x] \in WS
    /\ line[k + 1] = ")"

\* the first opening line of the array has no ")" and no later line begins
\* with optional whitespace followed by ")"
NeverClosed(text, array_name) ==
  LET lines == SplitLines(text)
      opening == OpeningLines(lines, array_name)
  IN /\ opening # {}
     /\ LET start == CHOOSE n \in opening : \A m \in opening : n <= m
        IN /\ ")" \notin Range(lines[start])
           /\ \A n \in (start + 1)..Len(lines) : ~BeginsWithClosingParen(lines[n])

C9_NotFoundFails ==
  (IsEdit(last) /\ OpeningLines(SplitLines(last.read), last.array_name) = {})
  => (/\ last.raised = "ValueError"
      /\ {"array_name", "file_path"} \subseteq DOMAIN last.message
      /\ last.message.array_name = last.array_name
      /\ last.message.file_path = last.path
      /\ files[last.path].text = last.read)

\* C9 witness: the call failed on a file that declares only arrays whose
\* longer names start or end with the requested name
C9_Witness ==
  /\ IsEdit(last) /\ last.write
  /\ last.raised = "ValueError"
  /\ OpeningLines(SplitLines(last.read), last.array_name) = {}
  /\ \E n, m \in 1..Len(SplitLines(last.read)) :
       /\ StartsWith(SplitLines(last.read)[n], last.array_name)
       /\ \E i \in 2..Len(SplitLines(last.read)[m]) :
            /\ HasAt(SplitLines(last.read)[m], i, last.array_name \o <<"=", "(">>)
            /\ SplitLines(last.read)[m][i - 1] \notin WS
  /\ files[last.path].text = last.read

\* the lines before the opening line and from the closing line on (for the
\* inline form, after the opening line)
OutsideLines(text, array_name) ==
  LET lines == SplitLines(text)
      start == FindStart(lines, array_name)
      block == ParseArrayBlock(lines, start)
  IN <<SubSeq(lines, 1, start - 1),
       SubSeq(lines, IF InlineMatches(lines[start]) THEN start + 1 ELSE block.end,
              Len(lines))>>

\* C10: after add_entries_to_array with write=true returned changed=true,
\* the array parsed from the written file has every requested entry among
\* its normalized entries, the file has as many opening lines of the array
\* as before, and the lines outside the declaration are unchanged.
C10_AddedPresent ==
  (/\ last.op = "add" /\ last.write
   /\ last.raised = "none" /\ last.result.changed)
  => LET after == files[last.path].text
     IN /\ \A e \in Range(last.entries) :
             e \in Range(EntriesIn(after, last.array_name))
        /\ Cardinality(OpeningLines(SplitLines(after), last.array_name))
             = Cardinality(OpeningLines(SplitLines(last.read), last.array_name))
        /\ OutsideLines(after, last.array_name)
             = OutsideLines(last.read, last.array_name)

\* the lines that add_entries_to_array appended to the block: the block
\* lines of the written file after those the block had when it was read
AppendedLines(call) ==
  From(BlockLines(files[call.path].text, call.array_name),
       Len(BlockLines(call.read, call.array_name)) + 1)

\* C11: add_entries_to_array never appends a line whose normalized form is
\* the normalized form of an entry the array already had, and when the
\* normalized form of every requested entry is already in the array it
\* returns changed=false.
C11_NormalizedComparison ==
  (last.op = "add" /\ last.write /\ last.raised = "none")
  => /\ \A k \in 1..Len(AppendedLines(last)) :
          NormalizeEntry(AppendedLines(last)[k])
            \notin Range(EntriesIn(last.read, last.array_name))
     /\ (\A e \in Range(last.entries) :
           NormalizeEntry(e) \in Range(EntriesIn(last.read, last.array_name)))
        => ~last.result.changed

\* the call found the array in block form: the first opening line has no
\* "(...)" on it and a later line closes the block
BlockForm(call) ==
  /\ IsEdit(call)
  /\ OpeningLines(SplitLines(call.read), call.array_name) # {}
  /\ ~InlineMatches(SplitLines(call.read)[Min(OpeningLines(SplitLines(call.read),
                                                            call.array_name))])
  /\ ~NeverClosed(call.read, call.array_name)

\* the line number of the closing line of the block in the text
ClosingLine(text, array_name) ==
  Min({n \in (Min(OpeningLines(SplitLines(text), array_name)) + 1)..Len(SplitLines(text)) :
         BeginsWithClosingParen(SplitLines(text)[n])})

\* the requested entries that equal no normalized entry of the array, in
\* input order, repeated as often as requested
NotPresent(call) ==
  SelectSeq(call.entries,
            LAMBDA e : \A k \in 1..Len(EntriesIn(call.read, call.array_name)) :
                         EntriesIn(call.read, call.array_name)[k] # e)

\* the lines of the file read, with one line 'indent + entry' for each of
\* the entries put immediately before the closing line of the block
WithLinesBeforeClose(call, indent, additions) ==
  SubSeq(SplitLines(call.read), 1, ClosingLine(call.read, call.array_name) - 1)
    \o [k \in 1..Len(additions) |-> indent \o additions[k]]
    \o From(SplitLines(call.read), ClosingLine(call.read, call.array_name))

RECURSIVE Without(_, _, _)
Without(lines, dropped, n) ==
  IF n > Len(lines) THEN <<>>
  ELSE (IF n \in dropped THEN <<>> ELSE <<lines[n]>>) \o Without(lines, dropped, n + 1)

\* the numbers of the block lines whose normalized form is non-empty and is
\* a requested entry
Matching(call) ==
  {n \in (Min(OpeningLines(SplitLines(call.read), call.array_name)) + 1)
           ..(ClosingLine(call.read, call.array_name) - 1) :
     /\ Truthy(NormalizeEntry(SplitLines(call.read)[n]))
     /\ NormalizeEntry(SplitLines(call.read)[n]) \in Range(call.entries)}

\* C13: for a block-form array, remove_entries_from_array with write=true
\* writes the lines of the file without the block lines whose normalized
\* form is non-empty and requested, every other line as it was and in the
\* original order, and returns after_count = before_count minus the number
\* of dropped lines; when no line is dropped it returns changed=false in the
\* step that read the file and changes nothing on disk.
C13_RemoveDropsMatching ==
  [][(/\ Returned
      /\ last'.op = "remove" /\ last'.write /\ last'.raised = "none"
      /\ BlockForm(last'))
     => (/\ last'.result.changed = (Matching(last') # {})
         /\ last'.result.before_count = Len(EntriesIn(last'.read, last'.array_name))
         /\ last'.result.after_count
              = last'.result.before_count - Cardinality(Matching(last'))
         /\ SplitLines(files'[last'.path].text)
              = Without(SplitLines(last'.read), Matching(last'), 1)
         /\ Matching(last') = {} => (pc[1] = "idle" /\ disk' = disk))]_vars

\* C13 witness: an entry line was dropped from a block that also has a
\* quoted entry and a comment line, which are still there
C13_Witness ==
  /\ last.op = "remove" /\ last.write /\ last.raised = "none" /\ BlockForm(last)
  /\ Cardinality(Matching(last)) = 1
  /\ last.result.before_count = 2 /\ last.result.after_count = 1
  /\ \E n, m \in 1..Len(SplitLines(files[last.path].text)) :
       /\ n < m
       /\ SplitLines(files[last.path].text)[n] = L_qb
       /\ SplitLines(files[last.path].text)[m] = L_comment
  /\ Len(SplitLines(files[last.path].text)) = Len(SplitLines(last.read)) - 1

\* the leading whitespace of the first block line that is not empty and not
\* whitespace only; empty when the block has no such line
FirstEntryIndent(call) ==
  LET lines == SplitLines(call.read)
      entry == {n \in (Min(OpeningLines(lines, call.array_name)) + 1)
                        ..(ClosingLine(call.read, call.array_name) - 1) :
                  Strip(lines[n]) # <<>>}
  IN IF entry = {} THEN <<>> ELSE LeadingWS(lines[Min(entry)])

\* C14: for a block-form array every line appended by add_entries_to_array
\* is the leading whitespace of the first block line that is not empty or
\* whitespace only, followed by the entry; for an inline-form array the
\* captured indentation is the empty string.
C14_IndentOfFirstEntry ==
  (last.op = "add" /\ last.write /\ last.raised = "none" /\ last.result.changed)
  => /\ BlockForm(last) =>
          SplitLines(files[last.path].text)
            = WithLinesBeforeClose(last, FirstEntryIndent(last), NotPresent(last))
     /\ InlineMatches(SplitLines(last.read)[FindStart(SplitLines(last.read),
                                                      last.array_name)])
        => ParseArrayBlock(SplitLines(last.read),
                           FindStart(SplitLines(last.read), last.array_name)).indent
             = <<>>

\* the line is optional indentation, "dnf", whitespace, an optional "-y"
\* and whitespace, "install", and later FEDORA_PACKAGES
IsInstallLine(line) ==
  \E i \in 0..Len(line) : \E j \in 1..Len(line) :
    /\ \A x \in 1..i : line[x] \in WS
    /\ HasAt(line, i + 1, DNF)
    /\ i + Len(DNF) + j <= Len(line)
    /\ \A x \in (i + Len(DNF) + 1)..(i + Len(DNF) + j) : line[x] \in WS
    /\ \E kw \in {i + Len(DNF) + j + 1} \cup
                 {i + Len(DNF) + j + 3 + k : k \in
                    {k \in 1..Len(line) :
                       /\ HasAt(line, i + Len(DNF) + j + 1, <<"-", "y">>)
                       /\ i + Len(DNF) + j + 2 + k <= Len(line)
                       /\ \A x \in (i + Len(DNF) + j + 3)..(i + Len(DNF) + j + 2 + k) :
                            line[x] \in WS}} :
         /\ HasAt(line, kw, INSTALL)
         /\ \E f \in Occurrences(line, FEDORA_PACKAGES) : f >= kw + Len(INSTALL)

\* the numbers of the lines of the text that are such commands
InstallLines(text) ==
  {n \in 1..Len(SplitLines(text)) : IsInstallLine(SplitLines(text)[n])}

\* " --exclude=p1 ... --exclude=pn"
RECURSIVE FlagText(_)
FlagText(packages) ==
  IF packages = <<>> THEN <<>>
  ELSE <<" ">> \o EXCLUDE_FLAG \o Head(packages) \o FlagText(Tail(packages))

\* the line with the flag text immediately after its first "install"
WithFlags(line, packages) ==
  SubSeq(line, 1, Min(Occurrences(line, INSTALL)) + Len(INSTALL) - 1)
    \o FlagText(packages)
    \o From(line, Min(Occurrences(line, INSTALL)) + Len(INSTALL))

\* C15: add_exclusions_to_dnf_install with packages p1..pn (n > 0) returns
\* the number of lines that are optional indentation, dnf, an optional -y,
\* install and later FEDORA_PACKAGES, and with write=true replaces each of
\* them by the same line with " --exclude=p1 ... --exclude=pn" inserted
\* immediately after the first "install" and nowhere else; the line
\* "dnf -y install ${FEDORA_PACKAGES[@]}" with [a, b] becomes
\* "dnf -y install --exclude=a --exclude=b ${FEDORA_PACKAGES[@]}".
C15_FlagsAfterFirstInstall ==
  (last.op = "exclude" /\ last.entries # <<>>)
  => /\ last.raised = "none"
     /\ last.result.modified_count = Cardinality(InstallLines(last.read))
     /\ last.write =>
          \A n \in InstallLines(last.read) :
            /\ n <= Len(SplitLines(files[last.path].text))
            /\ SplitLines(files[last.path].text)[n]
                 = WithFlags(SplitLines(last.read)[n], last.entries)
            /\ (SplitLines(last.read)[n] = L_dnf /\ last.entries = <<<<"a">>, <<"b">>>>)
               => SplitLines(files[last.path].text)[n] = L_dnf_ab

\* C15 witness: two of four commands were rewritten, one of them with a
\* second "install" on the line, with a package given twice
C15_Witness ==
  /\ last.op = "exclude" /\ last.write /\ last.raised = "none"
  /\ last.entries = <<<<"a">>, <<"a">>>>
  /\ last.result.modified_count = 2
  /\ Len(SplitLines(last.read)) = 4
  /\ \E n \in InstallLines(last.read) :
       /\ Cardinality(Occurrences(SplitLines(last.read)[n], INSTALL)) = 2
       /\ Cardinality(Occurrences(SplitLines(files[last.path].text)[n], EXCLUDE_FLAG)) = 2
  /\ files[last.path].text # last.read

\* C16: after add_exclusions_to_dnf_install with write=true modified at
\* least one line, the written file has as many lines as the file read,
\* every line that is not an install command of C15 is the same line at the
\* same position, empty lines at the end of the file included, and the text
\* ends with exactly one line end.
C16_OtherLinesUntouched ==
  (/\ last.op = "exclude" /\ last.write /\ last.raised = "none"
   /\ last.result.modified_count > 0)
  => /\ Len(SplitLines(files[last.path].text)) = Len(SplitLines(last.read))
     /\ \A n \in 1..Len(SplitLines(last.read)) :
          n \notin InstallLines(last.read) =>
            /\ n <= Len(SplitLines(files[last.path].text))
            /\ SplitLines(files[last.path].text)[n] = SplitLines(last.read)[n]
     /\ EndsWith(files[last.path].text, <<NL>>)
     /\ ~EndsWith(files[last.path].text, <<NL, NL>>)

\* the call of add_exclusions_to_dnf_install on the file failed
ExclusionFailed(path) ==
  \E call \in {last, prev} :
    call.op = "exclude" /\ call.path = path /\ call.raised # "none"

\* C17: a batch operation returns its results mapping and does not raise,
\* whatever failed while a file was processed, and apply_dnf_exclusions
\* has a result for every file with an install command whose call did not
\* fail.
C17_BatchIsolatesFailures ==
  lastBatch # NoBatch
  => /\ lastBatch.raised = "none"
     /\ (lastBatch.kind = "dnf" /\ GetWeakPackages(lastBatch.cfg) # <<>>)
        => \A path \in FilesWithDnf(lastBatch.before, Paths) :
             path \in DOMAIN lastBatch.results \/ ExclusionFailed(path)

\* the call went through _write_atomic and replaced the target
Wrote(call) ==
  call # NoCall /\ call.write /\ call.changed /\ call.raised = "none"

\* C18: with a backup directory configured, the backup directory holds the
\* pre-edit content of every write that was made, however close in time the
\* writes were.
C18_BackupOfEveryWrite ==
  backup_dir =>
    \A call \in {last, prev} :
      Wrote(call) => \E name \in DOMAIN backups : backups[name] = call.read

\* both processes are between calls, and the last two calls, made on the
\* same file, both replaced it
BothWrote ==
  /\ \A p \in Procs : pc[p] = "idle"
  /\ Wrote(last) /\ Wrote(prev)
  /\ last.path = prev.path

\* C19: when two calls with write=true on the same file, made one after the
\* other or by two processes at the same time, have both returned, the file
\* holds exactly the text that one of them computed from the content it
\* read.
C19_LastWriterWins ==
  BothWrote =>
    \/ files[last.path].text = last.new_text
    \/ files[last.path].text = prev.new_text

\* C19 witness: two processes read the same content and added different
\* entries; the file is the complete output of the one that replaced last
\* and lacks the entry the other one added
C19_Witness ==
  /\ BothWrote
  /\ last.op = "add" /\ prev.op = "add"
  /\ last.read = prev.read
  /\ last.array_name = prev.array_name
  /\ last.entries # prev.entries
  /\ files[last.path].text = last.new_text
  /\ \E e \in Range(prev.entries) :
       /\ e \in Range(EntriesIn(prev.new_text, prev.array_name))
       /\ e \notin Range(EntriesIn(files[last.path].text, last.array_name))

\* what the call's operation computes from a text with the call's
\* arguments: the new text and what it reports
Outcome(call, text) ==
  IF call.op = "exclude"
  THEN [new_text |-> ExclusionEdit(text, call.entries).new_text,
        summary |-> <<ExclusionEdit(text, call.entries).modified_count>>]
  ELSE IF call.op = "add"
  THEN [new_text |-> AddEdit(text, call.array_name, call.entries).new_text,
        summary |-> <<AddEdit(text, call.array_name, call.entries).err,
                      AddEdit(text, call.array_name, call.entries).changed,
                      AddEdit(text, call.array_name, call.entries).before_count,
                      AddEdit(text, call.array_name, call.entries).after_count>>]
  ELSE [new_text |-> RemoveEdit(text, call.array_name, call.entries).new_text,
        summary |-> <<RemoveEdit(text, call.array_name, call.entries).err,
                      RemoveEdit(text, call.array_name, call.entries).changed,
                      RemoveEdit(text, call.array_name, call.entries).before_count,
                      RemoveEdit(text, call.array_name, call.entries).after_count>>]

\* what the call reported
Reported(call) ==
  IF call.op = "exclude" THEN <<call.result.modified_count>>
  ELSE <<call.raised, call.result.changed, call.result.before_count,
         call.result.after_count>>

\* the array edit among the last two calls
EditCall == IF IsEdit(prev) THEN prev ELSE last

\* prev and last are the rewriter and an array edit, in either order, both
\* with write=true on the same file, which had a block-form array and an
\* install command before the first of them
RewriterAndEditor ==
  /\ prev # NoCall /\ last # NoCall
  /\ prev.write /\ last.write
  /\ prev.path = last.path
  /\ \/ prev.op = "exclude" /\ IsEdit(last)
     \/ IsEdit(prev) /\ last.op = "exclude"
  /\ BlockForm([EditCall EXCEPT !.read = prev.read])
  /\ InstallLines(prev.read) # {}
  /\ pc[1] = "idle"

\* the opposite order, from the same content, gives the same file and the
\* same two results
SameInOppositeOrder ==
  /\ Outcome(prev, Outcome(last, prev.read).new_text).new_text
       = files[last.path].text
  /\ Outcome(last, prev.read).summary = Reported(last)
  /\ Outcome(prev, Outcome(last, prev.read).new_text).summary = Reported(prev)

\* the rewriter left the opening line and the closing line of the array as
\* they were
RewriterKeptArrayLines(call) ==
  call.op = "exclude" =>
    \A n \in {Min(OpeningLines(SplitLines(call.read), EditCall.array_name)),
              ClosingLine(call.read, EditCall.array_name)} :
      SplitLines(call.new_text)[n] = SplitLines(call.read)[n]

NoCommandInArray ==
  /\ \A n \in (Min(OpeningLines(SplitLines(prev.read), EditCall.array_name)) + 1)
                ..(ClosingLine(prev.read, EditCall.array_name) - 1) :
       ~IsInstallLine(SplitLines(prev.read)[n])
  /\ \A e \in Range(EditCall.entries) : ~IsInstallLine(e)

Between(line) ==
  SubSeq(line, Min(Occurrences(line, <<"(">>)) + 1, Max(Occurrences(line, <<")">>)) - 1)

\* t, found at position j of s, is a token: the span up to the next double
\* quote when it starts with one and one follows, else the same for a single
\* quote, else a run of non-whitespace that whitespace or the end follows
IsToken(s, j, t) ==
  /\ t # <<>>
  /\ HasAt(s, j, t)
  /\ IF t[1] = DQ /\ \E x \in (j + 1)..Len(s) : s[x] = DQ
     THEN Len(t) >= 2 /\ t[Len(t)] = DQ /\ \A x \in 2..(Len(t) - 1) : t[x] # DQ
     ELSE IF t[1] = SQ /\ \E x \in (j + 1)..Len(s) : s[x] = SQ
     THEN Len(t) >= 2 /\ t[Len(t)] = SQ /\ \A x \in 2..(Len(t) - 1) : t[x] # SQ
     ELSE /\ \A x \in 1..Len(t) : t[x] \notin WS
          /\ j + Len(t) > Len(s) \/ s[j + Len(t)] \in WS

\* the tokens are the tokens of s from position i on, leftmost first, with
\* nothing but whitespace before, between and after them
RECURSIVE Tokenizes(_, _, _)
Tokenizes(s, i, tokens) ==
  IF tokens = <<>> THEN \A x \in i..Len(s) : s[x] \in WS
  ELSE /\ IsToken(s, SkipWS(s, i), Head(tokens))
       /\ Tokenizes(s, SkipWS(s, i) + Len(Head(tokens)), Tail(tokens))

\* the line has a "(" and a ")" after it
HasParens(line) ==
  \E i \in Occurrences(line, <<"(">>) : \E j \in Occurrences(line, <<")">>) : i < j

\* the call found the array with an opening line that has a "(" and a ")"
\* after it
InlineForm(call) ==
  /\ IsEdit(call)
  /\ OpeningLines(SplitLines(call.read), call.array_name) # {}
  /\ HasParens(SplitLines(call.read)[Min(OpeningLines(SplitLines(call.read),
                                                      call.array_name))])

\* what C21 says of the block parsed at line start of the lines the call read
InlineParsed(call, lines, start, blk) ==
  /\ blk.closed
  /\ blk.end = start
  /\ blk.indent = <<>>
  /\ Tokenizes(Between(lines[start]), 1, blk.entries)
  /\ blk = ParseArrayBlock(SubSeq(lines, 1, start), start)
  /\ call.raised = "none"
  /\ call.result.before_count
       = Cardinality({k \in 1..Len(blk.entries) : Truthy(NormalizeEntry(blk.entries[k]))})
  /\ lines[start] = L_names
     => [k \in 1..Len(blk.entries) |-> NormalizeEntry(blk.entries[k])]
          = <<<<"a">>, <<"b", " ", "c">>, <<"d">>>>

\* the same, for the first opening line of the array when it is inline
InlineParsedAt(call, lines, opening) ==
  (opening # {} /\ HasParens(lines[Min(opening)]))
  => InlineParsed(call, lines, Min(opening), ParseArrayBlock(lines, Min(opening)))

\* C21: for an opening line that also has the closing paren,
\* _parse_array_block returns the start index as end index, an empty
\* indentation and the tokens of the text between the first "(" and the
\* last ")" of the line as raw entries, and returns the same when the later
\* lines are not there; the call raises nothing and counts the tokens that
\* normalize to something; for NAMES=(a "b c" 'd') the entries normalize to
\* [a, b c, d].
C21_InlineParse ==
  IsEdit(last)
  => InlineParsedAt(last, SplitLines(last.read),
                    OpeningLines(SplitLines(last.read), last.array_name))

\* C21 witness: an add of the entry "b c" on NAMES=(a "b c" 'd'), which is
\* followed by lines of a block, found three entries and the entry present
C21_Witness ==
  /\ InlineForm(last)
  /\ last.op = "add" /\ last.raised = "none"
  /\ SplitLines(last.read)[1] = L_names
  /\ Len(SplitLines(last.read)) = 3
  /\ last.entries = <<<<"b", " ", "c">>>>
  /\ last.result.before_count = 3
  /\ ~last.result.changed

\* C22: after add_entries_to_array or remove_entries_from_array with
\* write=true returned changed=true, the array located and parsed again in
\* the written file has as many non-empty normalized entries as the
\* returned after_count, for block-form and inline-form arrays and for any
\* requested strings.
C22_CountMatchesFile ==
  (/\ IsEdit(last) /\ last.write
   /\ last.raised = "none" /\ last.result.changed)
  => Len(EntriesIn(files[last.path].text, last.array_name)) = last.result.after_count


\* a call of add_exclusions_to_dnf_install with packages and write=true
\* that returned
Rewrite(call) ==
  /\ call.op = "exclude" /\ call.write
  /\ call.entries # <<>> /\ call.raised = "none"

\* how many copies of flags stand one after the other at position i of line
RECURSIVE CopiesAt(_, _, _)
CopiesAt(line, i, flags) ==
  IF flags # <<>> /\ HasAt(line, i, flags)
  THEN 1 + CopiesAt(line, i + Len(flags), flags)
  ELSE 0

\* how many copies of " --exclude=p1 ... --exclude=pn" follow the first
\* "install" of the line
Copies(line, packages) ==
  CopiesAt(line, Min(Occurrences(line, INSTALL)) + Len(INSTALL), FlagText(packages))

\* the call found the file as the call before it left it, and both gave the
\* same packages
Repeats(call, before) ==
  /\ Rewrite(call) /\ Rewrite(before)
  /\ before.path = call.path /\ before.entries = call.entries
  /\ call.read = before.new_text

\* C23: a line rewritten by add_exclusions_to_dnf_install is an install
\* command again, so a further call with write=true on the same file
\* rewrites the same lines, returns the same modified count and adds one
\* more copy of the flag sequence after the first "install": after two
\* calls with the same packages every matching line of the original carries
\* the sequence twice, after k calls k times.
C23_RewritesAccumulate ==
  Rewrite(last)
  => /\ InstallLines(files[last.path].text) = InstallLines(last.read)
     /\ \A n \in InstallLines(last.read) :
          Copies(SplitLines(files[last.path].text)[n], last.entries)
            = Copies(SplitLines(last.read)[n], last.entries) + 1
     /\ Repeats(last, prev)
        => /\ last.result.modified_count = prev.result.modified_count
           /\ InstallLines(last.read) = InstallLines(prev.read)
           /\ \A n \in InstallLines(prev.read) :
                /\ SplitLines(files[last.path].text)[n]
                     = WithFlags(WithFlags(SplitLines(prev.read)[n], last.entries),
                                 last.entries)
                /\ Copies(SplitLines(files[last.path].text)[n], last.entries)
                     = Copies(SplitLines(prev.read)[n], last.entries) + 2

\* C23 witness: the second of two calls with [a, b] rewrote the same two
\* commands again, and the one with a second "install" now carries the
\* flag sequence twice after the first
C23_Witness ==
  /\ Repeats(last, prev)
  /\ last.entries = <<<<"a">>, <<"b">>>>
  /\ last.result.modified_count = 2 /\ prev.result.modified_count = 2
  /\ \E n \in InstallLines(prev.read) :
       /\ SplitLines(prev.read)[n] = L_dnf_two
       /\ Copies(SplitLines(files[last.path].text)[n], last.entries) = 2
       /\ Cardinality(Occurrences(SplitLines(files[last.path].text)[n], EXCLUDE_FLAG)) = 4

=============================================================================
